---- MODULE Spec2Model ----
(***************************************************************************)
(* RV_Monitor: the BMP180 driver (lib/bmp180.py) and the polling / alert   *)
(* loop that uses it (code.py).                                            *)
(*                                                                         *)
(* Conventions                                                             *)
(*  - Python floats are carried as integers in units of 1/FScale           *)
(*    (thousandths): 15.047 degC is 15047, 1013.25 hPa is 1013250.  Every  *)
(*    float division truncates to that resolution, so a modelled value is  *)
(*    within a few thousandths of the double the code computes.            *)
(*  - sleep() durations are in units of 0.1 ms: sleep(0.005) is 50.        *)
(*  - time.monotonic() is in whole seconds.                                *)
(*  - A bus transaction is a record [k, reg, v]: k = "w" a register write  *)
(*    of v, k = "r" a register read that returned v, k = "s" a sleep of v. *)
(***************************************************************************)
EXTENDS Integers, Sequences, FiniteSets, TLC

(***************************************************************************)
(* Module constants of lib/bmp180.py                                       *)
(***************************************************************************)
_CHIP_ID == 597
_I2C_ADDR == 119
_REGISTER_CHIPID == 208
_REGISTER_SOFTRESET == 224
_REGISTER_CONTROL == 244
_REGISTER_DATA == 246
_REGISTER_AC1 == 170
TEMPERATURE_CMD == 46
PRESSURE_OVERSAMPLING_X1 == 1
PRESSURE_OVERSAMPLING_X2 == 2
PRESSURE_OVERSAMPLING_X4 == 3
PRESSURE_OVERSAMPLING_X8 == 4
MODE_ULTRALOWPOWER == 0
MODE_STANDARD == 1
MODE_HIGHRES == 2
MODE_ULTRAHIGHRES == 3
SOFTRESET_CMD == 182

\* the dict _BMP180_PRESSURE_CMD: its keys are the oversampling constants
_BMP180_PRESSURE_CMD ==
    (PRESSURE_OVERSAMPLING_X1 :> 52) @@ (PRESSURE_OVERSAMPLING_X2 :> 116) @@
    (PRESSURE_OVERSAMPLING_X4 :> 180) @@ (PRESSURE_OVERSAMPLING_X8 :> 244)

\* the tuple _BMP180_MODES
_BMP180_MODES ==
    <<MODE_ULTRALOWPOWER, MODE_STANDARD, MODE_HIGHRES, MODE_ULTRAHIGHRES>>

\* Python "value in tuple"
InTuple(value, t) == \E i \in 1..Len(t) : t[i] = value

(***************************************************************************)
(* Float arithmetic at resolution 1/FScale                                 *)
(***************************************************************************)
FScale == 1000

Abs(a) == IF a < 0 THEN -a ELSE a
Sgn(a) == IF a < 0 THEN -1 ELSE 1

RECURSIVE Pow2(_)
Pow2(n) == IF n = 0 THEN 1 ELSE 2 * Pow2(n - 1)

\* <<q, r>> with a*b = q*c + r and 0 <= r < c, for a, b >= 0 and c > 0,
\* computed without forming the product a*b
\* F applied to the value of v, with v evaluated once
Let1(v, F(_)) == CHOOSE x \in {F(w) : w \in {v}} : TRUE

\* from h = <<q, r>> for a * (b \div 2), the pair for a * b
MulDivStep(h, a, b, c) ==
    LET add == IF b % 2 = 1 THEN a ELSE 0
        t == 2 * h[2] + (add % c)
    IN  <<2 * h[1] + (add \div c) + (t \div c), t % c>>

RECURSIVE MulDivNat(_, _, _)
MulDivNat(a, b, c) ==
    IF b = 0 THEN <<0, 0>>
    ELSE Let1(MulDivNat(a, b \div 2, c), LAMBDA h : MulDivStep(h, a, b, c))

\* a*b/c truncated toward zero (c # 0)
MulDiv(a, b, c) ==
    Sgn(a) * Sgn(b) * Sgn(c) * MulDivNat(Abs(a), Abs(b), Abs(c))[1]

\* a/c truncated toward zero (c # 0)
Div(a, c) == Sgn(a) * Sgn(c) * (Abs(a) \div Abs(c))

(***************************************************************************)
(* Compensation arithmetic of the temperature and pressure properties      *)
(***************************************************************************)
\* X1 of lines 131 / 166, in thousandths
TempX1(coeffs, UT) == MulDiv(UT - coeffs[6], coeffs[5] * FScale, 32768)

\* X1 + coeffs_mem[10] is exactly 0.0: the division of line 132 / 167 raises
TempDivZero(coeffs, UT) ==
    LET d == UT - coeffs[6]
        m == MulDivNat(Abs(d), Abs(coeffs[5]), 32768)
    IN  m[2] = 0 /\ Sgn(d) * Sgn(coeffs[5]) * m[1] = -coeffs[11]

\* B5 of lines 131-133 / 166-168, in thousandths
TempB5(coeffs, UT) ==
    Let1(TempX1(coeffs, UT), LAMBDA X1 :
         X1 + MulDiv(coeffs[10] * 2048, FScale * FScale,
                     X1 + coeffs[11] * FScale))

\* line 134 without the division by 10.0
Mut_TempCelsius(coeffs, UT) == Div(TempB5(coeffs, UT) + 8 * FScale, 16)

\* the value returned by line 135, in thousandths of a degree Celsius
TempCelsius(coeffs, UT) == Div(Div(TempB5(coeffs, UT) + 8 * FScale, 16), 10)

\* lines 169-177: B3 and B4, in thousandths
\* with B6 and (B6 * B6) / 2**12.0 given
PressB3B4From(coeffs, mode, B6, B6sq12) ==
    LET X1a == MulDiv(B6sq12, coeffs[8], 2048)
        X2a == MulDiv(B6, coeffs[2], 2048)
        X3a == X1a + X2a
        B3 == Div((coeffs[1] * 4 * FScale + X3a) * Pow2(mode) + 2 * FScale, 4)
        X1b == MulDiv(B6, coeffs[3], 8192)
        X2b == MulDiv(B6sq12, coeffs[7], 65536)
        X3b == Div(X1b + X2b + 2 * FScale, 4)
        B4 == MulDiv(X3b + 32768 * FScale, coeffs[4], 32768)
    IN  [B3 |-> B3, B4 |-> B4]

PressB3B4(coeffs, UT, mode) ==
    Let1(TempB5(coeffs, UT) - 4000 * FScale, LAMBDA B6 :
         Let1(MulDiv(B6, B6, FScale * 4096), LAMBDA B6sq12 :
              PressB3B4From(coeffs, mode, B6, B6sq12)))

\* line 180: B7 < 2147483648.0, with B7 = d/FScale * (50000 / 2**mode).
\* 2**31 * FScale is not a multiple of 50000 / 2**mode, so the comparison
\* is d <= floor(2**31 * FScale / (50000 / 2**mode)).
B7Below(d, mode) == d <= MulDiv(1073741824, 2 * FScale, 50000 \div Pow2(mode))

\* lines 178-183: press, in thousandths of a Pascal (B4 # 0)
\* with b = [B3, B4] given
PressRawFrom(b, UP, mode) ==
    LET d == UP * FScale - b.B3
        k == 50000 \div Pow2(mode)
    IN  IF B7Below(d, mode)
        THEN MulDiv(d, 2 * k * FScale, b.B4)
        ELSE 2 * MulDiv(d, k * FScale, b.B4)

PressRaw(coeffs, UT, UP, mode) ==
    Let1(PressB3B4(coeffs, UT, mode), LAMBDA b : PressRawFrom(b, UP, mode))

\* B4 is 0.0: the division of line 181 / 183 raises
PressDivZero(coeffs, UT, mode) == PressB3B4(coeffs, UT, mode).B4 = 0

\* the value returned by line 189, in thousandths of a hectoPascal
\* lines 185-189 with press given
PressHPaFrom(press) ==
    LET X1 == Let1(Div(press, 256), LAMBDA p256 :
                   MulDiv(MulDiv(p256, p256, FScale), 3038, 65536))
        X2 == MulDiv(press, -7357, 65536)
    IN  Div(press + Div(X1 + X2 + 3791 * FScale, 16), 100)

PressHPa(coeffs, UT, UP, mode) ==
    Let1(PressRaw(coeffs, UT, UP, mode), LAMBDA press : PressHPaFrom(press))

(***************************************************************************)
(* Values the device can return, and arguments a caller can pass           *)
(***************************************************************************)
\* the calibration block of the datasheet's worked example
DatasheetCoeffs ==
    <<408, -72, -14383, 32741, 32757, 23153, 6190, 4, -32768, -8711, 2868>>

CoeffBlocks == {DatasheetCoeffs}
ChipIdWords == {_CHIP_ID, 85}
UTWords == {27898, 30000}
MSBWords == {93, 511}
LSBWords == {35}
XLSBWords == {128}

\* setter arguments range over -1..ArgMax
ArgMax == 5
SetterArgs == -1..ArgMax

\* altitudes (metres) assigned through the altitude setter
AltitudeArgs == {100, 44330}

\* values (thousandths of a hPa) assigned to the sea_level_pressure field
SeaLevelArgs == {1013250, 0}

(***************************************************************************)
(* Bus transactions and call outcomes                                      *)
(***************************************************************************)
Wr(reg, v) == [k |-> "w", reg |-> reg, v |-> v]
Rd(reg, v) == [k |-> "r", reg |-> reg, v |-> v]
Sl(d) == [k |-> "s", reg |-> 0, v |-> d]

\* sea_level_pressure holds p / (1.0 - alt / 44330.0) ** 5.255, kept as the
\* pair (p, alt); a plain value p is the pair (p, 0)
SeaLevel(p, alt) == [p |-> p, alt |-> alt]
NoSeaLevel == SeaLevel(-1, 0)

\* attribute not yet assigned
Unset == -1

\* the value a call returns: nothing, a number in thousandths, or the
\* altitude round(44330.0 * (1.0 - (num / ref) ** 0.19025), 1)
NoValue == [kind |-> "none", num |-> 0, ref |-> NoSeaLevel]
Num(n) == [kind |-> "num", num |-> n, ref |-> NoSeaLevel]
Alt(n, ref) == [kind |-> "alt", num |-> n, ref |-> ref]

Outcome(log, error, value) == [log |-> log, error |-> error, value |-> value]

\* where a planned transaction sequence can raise OSError: at no bus
\* access (0) or at the f-th transaction, a read or a write
FailPoints(ops) == {0} \cup {f \in 1..Len(ops) : ops[f].k # "s"}

\* the transactions issued when the f-th one raises
Issued(ops, f) == IF f = 0 THEN ops ELSE SubSeq(ops, 1, f)

\* the raw temperature read without a trigger and a wait of its own
Mut_TempOps(utw) == <<Rd(_REGISTER_DATA, utw)>>

\* lines 128-130 / 161-163: trigger, wait 5 ms, read the raw temperature
TempOps(utw) ==
    <<Wr(_REGISTER_CONTROL, TEMPERATURE_CMD), Sl(50), Rd(_REGISTER_DATA, utw)>>

\* lines 195-202: the wait of _read_raw_pressure
PressureSleep(mode) ==
    IF mode = PRESSURE_OVERSAMPLING_X8 THEN 260
    ELSE IF mode = PRESSURE_OVERSAMPLING_X4 THEN 140
    ELSE IF mode = PRESSURE_OVERSAMPLING_X2 THEN 80
    ELSE 50

\* line 193: the command looked up for the trigger write
PressureCmdKey(mode, oversampling) == mode

\* lines 193-206: the transactions of _read_raw_pressure; none when the
\* lookup of line 193 raises KeyError
RawPressureOps(mode, oversampling, mw, lw, xw) ==
    LET key == PressureCmdKey(mode, oversampling)
    IN  IF key \notin DOMAIN _BMP180_PRESSURE_CMD THEN <<>>
        ELSE <<Wr(_REGISTER_CONTROL, _BMP180_PRESSURE_CMD[key]),
               Sl(PressureSleep(mode)),
               Rd(_REGISTER_DATA, mw),
               Rd(_REGISTER_DATA + 1, lw),
               Rd(_REGISTER_DATA + 2, xw)>>

\* lines 204-208: the raw pressure assembled from the three words read
RawPressure(mode, mw, lw, xw) ==
    (((mw % 256) * 65536) + ((lw % 256) * 256) + (xw % 256))
        \div Pow2(8 - mode)

\* lines 131-135 evaluated once for every calibration block and raw
\* temperature word the device can present: [zero] line 132 divides by
\* zero, [celsius] the value returned
TemperatureValue ==
    [c \in CoeffBlocks, utw \in UTWords |->
        IF TempDivZero(c, utw) THEN [zero |-> TRUE, celsius |-> 0]
        ELSE [zero |-> FALSE, celsius |-> TempCelsius(c, utw)]]

\* lines 166-189 evaluated once for every calibration block, mode and
\* result words the device can present: [zero] line 167, 181 or 183 divides
\* by zero, [hPa] the value returned
PressureValue ==
    [c \in CoeffBlocks, m \in 0..3, utw \in UTWords, mw \in MSBWords,
     lw \in LSBWords, xw \in XLSBWords |->
        IF TempDivZero(c, utw) \/ PressDivZero(c, utw, m)
        THEN [zero |-> TRUE, hPa |-> 0]
        ELSE [zero |-> FALSE,
              hPa |-> PressHPa(c, utw, RawPressure(m, mw, lw, xw), m)]]

\* the temperature property, lines 122-135
temperature(coeffs, utw, f) ==
    LET ops == TempOps(utw)
    IN  IF f # 0 THEN Outcome(Issued(ops, f), "OSError", NoValue)
        ELSE IF TemperatureValue[coeffs, utw].zero
             THEN Outcome(ops, "ZeroDivisionError", NoValue)
        ELSE Outcome(ops, "none", Num(TemperatureValue[coeffs, utw].celsius))

\* the pressure property, lines 155-189, with _read_raw_pressure
pressure(coeffs, mode, oversampling, utw, mw, lw, xw, f) ==
    LET raw == RawPressureOps(mode, oversampling, mw, lw, xw)
        ops == TempOps(utw) \o raw
    IN  IF f # 0 THEN Outcome(Issued(ops, f), "OSError", NoValue)
        ELSE IF raw = <<>> THEN Outcome(ops, "KeyError", NoValue)
        ELSE IF PressureValue[coeffs, mode, utw, mw, lw, xw].zero
             THEN Outcome(ops, "ZeroDivisionError", NoValue)
        ELSE Outcome(ops, "none",
                     Num(PressureValue[coeffs, mode, utw, mw, lw, xw].hPa))

\* the transactions pressure plans, for choosing where the bus can fail
PressurePlan(mode, oversampling, utw, mw, lw, xw) ==
    TempOps(utw) \o RawPressureOps(mode, oversampling, mw, lw, xw)

VARIABLES
    obj,                    \* "absent", "live", or "failed" (__init__ raised)
    _mode,                  \* self._mode
    _oversampling_setting,  \* self._oversampling_setting
    coeffs_mem,             \* self.coeffs_mem, <<>> until assigned
    sea_level_pressure,     \* self.sea_level_pressure
    lastCall,               \* the most recent call: its name, argument,
                            \* bus transactions, error and returned value
    coeffReads              \* reads of the calibration block issued so far

sensorVars == <<obj, _mode, _oversampling_setting, coeffs_mem,
                sea_level_pressure, lastCall, coeffReads>>

Call(op, arg, out) ==
    [op |-> op, arg |-> arg, log |-> out.log, error |-> out.error,
     value |-> out.value]

attrs == <<_mode, _oversampling_setting, coeffs_mem, sea_level_pressure>>

SensorInit ==
    /\ obj = "absent"
    /\ _mode = Unset
    /\ _oversampling_setting = Unset
    /\ coeffs_mem = <<>>
    /\ sea_level_pressure = NoSeaLevel
    /\ lastCall = Call("none", 0, Outcome(<<>>, "none", NoValue))
    /\ coeffReads = 0

\* the comparison against the one-byte chip id 0x55
Mut_ChipIdMismatch(idw) == idw # 85

\* the chip id comparison of line 107
ChipIdMismatch(idw) == idw # _CHIP_ID

\* __init__, lines 104-115.  idw is the chip id word read at line 107, idw2
\* the one read again at line 109 to format the message, block the
\* calibration block read at line 114.
Construct(idw, idw2, block, f) ==
    /\ obj = "absent"
    /\ LET idRead == Rd(_REGISTER_CHIPID, idw)
           idRead2 == Rd(_REGISTER_CHIPID, idw2)
           blockRead == Rd(_REGISTER_AC1, 0)
       IN  IF ChipIdMismatch(idw)
           THEN /\ f \in 0..2
                /\ obj' = "failed"
                /\ lastCall' = Call("__init__", 0,
                       IF f = 1 THEN Outcome(<<idRead>>, "OSError", NoValue)
                       ELSE IF f = 2
                            THEN Outcome(<<idRead, idRead2>>, "OSError", NoValue)
                       ELSE Outcome(<<idRead, idRead2>>, "RuntimeError", NoValue))
                /\ UNCHANGED <<attrs, coeffReads>>
           ELSE IF f = 1
           THEN /\ obj' = "failed"
                /\ lastCall' = Call("__init__", 0,
                                    Outcome(<<idRead>>, "OSError", NoValue))
                /\ UNCHANGED <<attrs, coeffReads>>
           ELSE IF f = 2
           THEN /\ obj' = "failed"
                /\ _oversampling_setting' = PRESSURE_OVERSAMPLING_X8
                /\ _mode' = MODE_HIGHRES
                /\ coeffReads' = coeffReads + 1
                /\ lastCall' = Call("__init__", 0,
                       Outcome(<<idRead, blockRead>>, "OSError", NoValue))
                /\ UNCHANGED <<coeffs_mem, sea_level_pressure>>
           ELSE /\ f = 0
                /\ obj' = "live"
                /\ _oversampling_setting' = PRESSURE_OVERSAMPLING_X8
                /\ _mode' = MODE_HIGHRES
                /\ coeffs_mem' = block
                /\ coeffReads' = coeffReads + 1
                /\ sea_level_pressure' = SeaLevel(1013250, 0)
                /\ lastCall' = Call("__init__", 0,
                       Outcome(<<idRead, blockRead>>, "none", NoValue))

\* a soft reset that loads the calibration block again
Mut_Reset(f) ==
    /\ obj = "live"
    /\ f = 0
    /\ lastCall' = Call("_reset", 0,
           Outcome(<<Wr(_REGISTER_SOFTRESET, SOFTRESET_CMD), Sl(40),
                     Rd(_REGISTER_AC1, 0)>>, "none", NoValue))
    /\ coeffReads' = coeffReads + 1
    /\ UNCHANGED <<obj, attrs>>

\* _reset, lines 117-120
Reset(f) ==
    /\ obj = "live"
    /\ LET ops == <<Wr(_REGISTER_SOFTRESET, SOFTRESET_CMD), Sl(40)>>
       IN  /\ f \in FailPoints(ops)
           /\ lastCall' = Call("_reset", 0,
                  IF f # 0 THEN Outcome(Issued(ops, f), "OSError", NoValue)
                  ELSE Outcome(ops, "none", NoValue))
    /\ UNCHANGED <<obj, attrs, coeffReads>>

\* reading the temperature property
Temperature(utw, f) ==
    /\ obj = "live"
    /\ f \in FailPoints(TempOps(utw))
    /\ lastCall' = Call("temperature", 0, temperature(coeffs_mem, utw, f))
    /\ UNCHANGED <<obj, attrs, coeffReads>>

\* reading the pressure property
Pressure(utw, mw, lw, xw, f) ==
    /\ obj = "live"
    /\ f \in FailPoints(PressurePlan(_mode, _oversampling_setting,
                                     utw, mw, lw, xw))
    /\ lastCall' = Call("pressure", 0,
           pressure(coeffs_mem, _mode, _oversampling_setting,
                    utw, mw, lw, xw, f))
    /\ UNCHANGED <<obj, attrs, coeffReads>>

\* reading the altitude property, lines 137-149
AltitudeGet(utw, mw, lw, xw, f) ==
    /\ obj = "live"
    /\ f \in FailPoints(PressurePlan(_mode, _oversampling_setting,
                                     utw, mw, lw, xw))
    /\ LET p == pressure(coeffs_mem, _mode, _oversampling_setting,
                         utw, mw, lw, xw, f)
       IN  lastCall' = Call("altitude", 0,
               IF p.error # "none" THEN p
               ELSE IF sea_level_pressure.p = 0
                    THEN Outcome(p.log, "ZeroDivisionError", NoValue)
               ELSE Outcome(p.log, "none",
                            Alt(p.value.num, sea_level_pressure)))
    /\ UNCHANGED <<obj, attrs, coeffReads>>

\* the altitude setter, lines 151-153
AltitudeSet(value, utw, mw, lw, xw, f) ==
    /\ obj = "live"
    /\ f \in FailPoints(PressurePlan(_mode, _oversampling_setting,
                                     utw, mw, lw, xw))
    /\ LET p == pressure(coeffs_mem, _mode, _oversampling_setting,
                         utw, mw, lw, xw, f)
       IN  IF p.error # "none"
           THEN /\ lastCall' = Call("altitude=", value, p)
                /\ UNCHANGED sea_level_pressure
           ELSE IF value = 44330
           THEN /\ lastCall' = Call("altitude=", value,
                       Outcome(p.log, "ZeroDivisionError", NoValue))
                /\ UNCHANGED sea_level_pressure
           ELSE /\ lastCall' = Call("altitude=", value,
                                    Outcome(p.log, "none", NoValue))
                /\ sea_level_pressure' = SeaLevel(p.value.num, value)
    /\ UNCHANGED <<obj, _mode, _oversampling_setting, coeffs_mem, coeffReads>>

\* assigning the sea_level_pressure field (code.py line 24)
SeaLevelSet(value) ==
    /\ obj = "live"
    /\ sea_level_pressure' = SeaLevel(value, 0)
    /\ lastCall' = Call("sea_level_pressure=", value,
                        Outcome(<<>>, "none", NoValue))
    /\ UNCHANGED <<obj, _mode, _oversampling_setting, coeffs_mem, coeffReads>>

\* a test that lets 4 through
Mut_ModeRejected(value) == value \notin 0..4

\* the test of line 244
ModeRejected(value) == ~InTuple(value, _BMP180_MODES)

\* the mode setter, lines 241-246
ModeSet(value) ==
    /\ obj = "live"
    /\ IF ModeRejected(value)
       THEN /\ lastCall' = Call("mode=", value,
                                Outcome(<<>>, "ValueError", NoValue))
            /\ UNCHANGED _mode
       ELSE /\ lastCall' = Call("mode=", value, Outcome(<<>>, "none", NoValue))
            /\ _mode' = value
    /\ UNCHANGED <<obj, _oversampling_setting, coeffs_mem,
                   sea_level_pressure, coeffReads>>

\* the mode getter, lines 210-239
ModeGet ==
    /\ obj = "live"
    /\ lastCall' = Call("mode", 0, Outcome(<<>>, "none", Num(_mode)))
    /\ UNCHANGED <<obj, attrs, coeffReads>>

\* the test of line 258
OversamplingRejected(value) == value \notin DOMAIN _BMP180_PRESSURE_CMD

\* the oversampling_setting setter, lines 256-260
OversamplingSet(value) ==
    /\ obj = "live"
    /\ IF OversamplingRejected(value)
       THEN /\ lastCall' = Call("oversampling_setting=", value,
                                Outcome(<<>>, "ValueError", NoValue))
            /\ UNCHANGED _oversampling_setting
       ELSE /\ lastCall' = Call("oversampling_setting=", value,
                                Outcome(<<>>, "none", NoValue))
            /\ _oversampling_setting' = value
    /\ UNCHANGED <<obj, _mode, coeffs_mem, sea_level_pressure, coeffReads>>

\* the oversampling_setting getter, lines 248-254
OversamplingGet ==
    /\ obj = "live"
    /\ lastCall' = Call("oversampling_setting", 0,
                        Outcome(<<>>, "none", Num(_oversampling_setting)))
    /\ UNCHANGED <<obj, attrs, coeffReads>>

(***************************************************************************)
(* code.py: the polling / alert program                                    *)
(***************************************************************************)
HIGH_TEMP == 83
POLL_FREQ == 30
MAIL_DELAY == 600

\* the program stops polling once time.monotonic() passes MaxClock
MaxClock == 1300

\* whole seconds that can pass in a step that does I/O
Jitter == {0, 1}

VARIABLES
    pc,              \* "boot", "start", "setup", "loop" or "crashed"
    clock,           \* time.monotonic(), seconds
    last_violation,  \* code.py global
    tempF,           \* code.py global, thousandths of a degree Fahrenheit
    now,             \* code.py global
    mails,           \* history: the alert mails sent, oldest first
    startup,         \* history: the value line 30 gave last_violation
    polls,           \* history: [cold] some reading was not above the
                     \* threshold, [late] the reading of now at the first
                     \* poll more than MAIL_DELAY after startup
    lastPoll         \* history: what the latest poll did

mainVars == <<pc, clock, last_violation, tempF, now, mails, startup, polls,
              lastPoll>>

vars == <<sensorVars, mainVars>>

NoTime == -1

MainInit ==
    /\ pc = "boot"
    /\ clock = 0
    /\ last_violation = NoTime
    /\ tempF = 0
    /\ now = NoTime
    /\ mails = <<>>
    /\ startup = NoTime
    /\ polls = [cold |-> FALSE, late |-> NoTime]
    /\ lastPoll = [alert |-> FALSE, tempF |-> 0, now |-> NoTime]

\* get_tempF, lines 51-54, applied to the Celsius value in thousandths
get_tempF(tempC) == Div(tempC * 9, 5) + 32 * FScale

\* the test with the poll period in place of the mail delay
Mut_AlertDue(tF, t, last) == tF > HIGH_TEMP * FScale /\ t - last > POLL_FREQ

\* the test of line 84
AlertDue(tF, t, last) == tF > HIGH_TEMP * FScale /\ t - last > MAIL_DELAY

\* lines 20-22: bmp = bmp180.BMP180(i2c)
MainConstruct(idw, idw2, block, f) ==
    /\ pc = "boot"
    /\ Construct(idw, idw2, block, f)
    /\ pc' = IF obj' = "live" THEN "start" ELSE "crashed"
    /\ UNCHANGED <<clock, last_violation, tempF, now, mails, startup, polls, lastPoll>>

\* a start that leaves the first alert due at once
Mut_MainStart ==
    /\ pc = "start"
    /\ sea_level_pressure' = SeaLevel(1013250, 0)
    /\ last_violation' = clock - MAIL_DELAY - 1
    /\ startup' = clock
    /\ pc' = "setup"
    /\ UNCHANGED <<obj, _mode, _oversampling_setting, coeffs_mem, lastCall,
                   coeffReads, clock, tempF, now, mails, polls, lastPoll>>

\* lines 24-34: set the sea level reference, stamp last_violation
MainStart ==
    /\ pc = "start"
    /\ sea_level_pressure' = SeaLevel(1013250, 0)
    /\ last_violation' = clock
    /\ startup' = clock
    /\ pc' = "setup"
    /\ UNCHANGED <<obj, _mode, _oversampling_setting, coeffs_mem, lastCall,
                   coeffReads, clock, tempF, now, mails, polls, lastPoll>>

\* lines 58-71: join the network, create the socket pool, ping; a failed
\* wifi connect is caught (line 62), the ping of line 71 can raise
MainSetup(dt, raises) ==
    /\ pc = "setup"
    /\ pc' = IF raises THEN "crashed" ELSE "loop"
    /\ clock' = clock + dt
    /\ UNCHANGED <<sensorVars, last_violation, tempF, now, mails, startup,
                   polls, lastPoll>>

\* one iteration of the loop, lines 76-89.  utw and f are the sensor's raw
\* temperature word and the bus failure point; dtStamp and dtMail are the
\* seconds that pass between the two readings of time.monotonic() (lines 82
\* and 86) and in send_mail.  The sensor read takes milliseconds.
Poll(utw, f, dtStamp, dtMail, mailRaises) ==
    /\ pc = "loop"
    /\ clock <= MaxClock
    /\ obj = "live"
    /\ f \in FailPoints(TempOps(utw))
    /\ LET out == temperature(coeffs_mem, utw, f)
           tF == get_tempF(out.value.num)
           t == clock
           stamp == t + dtStamp
       IN  /\ lastCall' = Call("temperature", 0, out)
           /\ IF out.error # "none"
              THEN /\ pc' = "crashed"
                   /\ clock' = t
                   /\ UNCHANGED <<last_violation, tempF, now, mails, polls,
                                  lastPoll>>
              ELSE /\ tempF' = tF
                   /\ now' = t
                   /\ polls' = [cold |-> polls.cold \/ ~(tF > HIGH_TEMP * FScale),
                                late |-> IF polls.late = NoTime
                                            /\ t - startup > MAIL_DELAY
                                         THEN t ELSE polls.late]
                   /\ IF AlertDue(tF, t, last_violation)
                      THEN /\ last_violation' = stamp
                           /\ lastPoll' = [alert |-> TRUE, tempF |-> tF, now |-> t]
                           /\ IF mailRaises
                              THEN /\ pc' = "crashed"
                                   /\ clock' = stamp + dtMail
                                   /\ UNCHANGED mails
                              ELSE /\ pc' = "loop"
                                   /\ clock' = stamp + dtMail + POLL_FREQ
                                   /\ mails' = Append(mails,
                                          [tempF |-> tF, now |-> t, at |-> stamp])
                      ELSE /\ lastPoll' = [alert |-> FALSE, tempF |-> tF, now |-> t]
                           /\ pc' = "loop"
                           /\ clock' = t + POLL_FREQ
                           /\ UNCHANGED <<last_violation, mails>>
    /\ UNCHANGED <<obj, attrs, coeffReads, startup>>

(***************************************************************************)
(* Specifications                                                          *)
(***************************************************************************)
Init == SensorInit /\ MainInit

\* the driver under an arbitrary caller
Next ==
    \/ \E idw, idw2 \in ChipIdWords, block \in CoeffBlocks, f \in 0..2 :
          Construct(idw, idw2, block, f) /\ UNCHANGED mainVars
    \/ \E f \in 0..2 : Reset(f) /\ UNCHANGED mainVars
    \/ \E utw \in UTWords, f \in 0..3 : Temperature(utw, f) /\ UNCHANGED mainVars
    \/ \E utw \in UTWords, mw \in MSBWords, lw \in LSBWords, xw \in XLSBWords,
          f \in 0..8 : Pressure(utw, mw, lw, xw, f) /\ UNCHANGED mainVars
    \/ \E utw \in UTWords, mw \in MSBWords, lw \in LSBWords, xw \in XLSBWords,
          f \in 0..8 : AltitudeGet(utw, mw, lw, xw, f) /\ UNCHANGED mainVars
    \/ \E value \in AltitudeArgs, utw \in UTWords, mw \in MSBWords,
          lw \in LSBWords, xw \in XLSBWords, f \in 0..8 :
          AltitudeSet(value, utw, mw, lw, xw, f) /\ UNCHANGED mainVars
    \/ \E value \in SeaLevelArgs : SeaLevelSet(value) /\ UNCHANGED mainVars
    \/ \E value \in SetterArgs : ModeSet(value) /\ UNCHANGED mainVars
    \/ ModeGet /\ UNCHANGED mainVars
    \/ \E value \in SetterArgs : OversamplingSet(value) /\ UNCHANGED mainVars
    \/ OversamplingGet /\ UNCHANGED mainVars

Spec == Init /\ [][Next]_vars

\* the program code.py
NextMain ==
    \/ \E idw, idw2 \in ChipIdWords, block \in CoeffBlocks, f \in 0..2 :
          MainConstruct(idw, idw2, block, f)
    \/ MainStart
    \/ \E dt \in Jitter, raises \in BOOLEAN : MainSetup(dt, raises)
    \/ \E utw \in UTWords, f \in 0..3, dtStamp \in Jitter, dtMail \in Jitter,
          mailRaises \in BOOLEAN : Poll(utw, f, dtStamp, dtMail, mailRaises)

SpecMain == Init /\ [][NextMain]_vars

(***************************************************************************)
(* Properties                                                              *)
(***************************************************************************)
PressureCmds == {_BMP180_PRESSURE_CMD[k] : k \in DOMAIN _BMP180_PRESSURE_CMD}

\* the latest call read the pressure: pressure, or altitude get / set
PressureCall == lastCall.op \in {"pressure", "altitude", "altitude="}

\* positions of the log where a pressure trigger was written
PressureTriggers ==
    {i \in 1..Len(lastCall.log) :
        /\ lastCall.log[i].k = "w"
        /\ lastCall.log[i].reg = _REGISTER_CONTROL
        /\ lastCall.log[i].v \in PressureCmds}

\* C1: in every mode 0..3 a pressure read that meets no bus failure
\* completes without an error and writes exactly one pressure trigger
\* command to the control register.
C1_PressureReadCompletes ==
    (lastCall.op = "pressure" /\ lastCall.error # "OSError")
        => /\ lastCall.error = "none"
           /\ Cardinality(PressureTriggers) = 1

\* settle times of modes 0..3, in units of 0.1 ms
SettleTime == <<45, 75, 135, 255>>

\* C2: every trigger write that is followed by anything is followed by a
\* wait of at least the settle time: 4.5 ms after the temperature trigger,
\* the settle time of the current mode after a pressure trigger.
C2_WaitsSettleTime ==
    (lastCall.op = "temperature" \/ PressureCall) =>
        \A i \in 1..Len(lastCall.log) :
            (lastCall.log[i].k = "w" /\ i < Len(lastCall.log)) =>
                /\ lastCall.log[i + 1].k = "s"
                /\ lastCall.log[i + 1].v >=
                       IF lastCall.log[i].v = TEMPERATURE_CMD
                       THEN SettleTime[1] ELSE SettleTime[_mode + 1]

\* the constructor read a chip id word other than _CHIP_ID
ChipIdMismatchSeen ==
    /\ lastCall.op = "__init__"
    /\ Len(lastCall.log) >= 1
    /\ lastCall.log[1].v # _CHIP_ID

\* C3: when the chip id does not match, construction fails (RuntimeError,
\* or OSError when the bus fails first), no read of the calibration block
\* is issued and none of the object's attributes is assigned.
C3_MismatchNoCalibrationRead ==
    ChipIdMismatchSeen =>
        /\ obj = "failed"
        /\ lastCall.error \in {"RuntimeError", "OSError"}
        /\ \A i \in 1..Len(lastCall.log) : lastCall.log[i].reg # _REGISTER_AC1
        /\ coeffReads = 0
        /\ _mode = Unset /\ _oversampling_setting = Unset
        /\ coeffs_mem = <<>> /\ sea_level_pressure = NoSeaLevel

C3_Witness == ChipIdMismatchSeen /\ lastCall.error = "RuntimeError"

\* what a step that is a setter or getter call does
C4_SetterStep ==
    /\ (lastCall'.op = "mode=" =>
           IF lastCall'.arg \in 0..3
           THEN /\ lastCall'.error = "none"
                /\ _mode' = lastCall'.arg
                /\ UNCHANGED <<_oversampling_setting, coeffs_mem,
                               sea_level_pressure>>
           ELSE lastCall'.error = "ValueError" /\ UNCHANGED attrs)
    /\ (lastCall'.op = "oversampling_setting=" =>
           IF lastCall'.arg \in 1..4
           THEN /\ lastCall'.error = "none"
                /\ _oversampling_setting' = lastCall'.arg
                /\ UNCHANGED <<_mode, coeffs_mem, sea_level_pressure>>
           ELSE lastCall'.error = "ValueError" /\ UNCHANGED attrs)
    /\ (lastCall'.op = "mode" => lastCall'.value = Num(_mode))
    /\ (lastCall'.op = "oversampling_setting" =>
           lastCall'.value = Num(_oversampling_setting))

\* C4: the mode setter rejects a value outside 0..3 and the
\* oversampling_setting setter a value outside 1..4 with an error and no
\* change of any attribute; an accepted value is stored, and the getters
\* return the stored values.
C4_SettersRejectWithoutMutation == [][C4_SetterStep]_vars

C4_Witness ==
    /\ lastCall.op = "oversampling_setting="
    /\ lastCall.error = "ValueError"
    /\ _mode = MODE_STANDARD

\* C5: a completed pressure read wrote the command that the current
\* oversampling setting selects from _BMP180_PRESSURE_CMD.
C5_CommandFollowsOversampling ==
    (lastCall.op = "pressure" /\ lastCall.error = "none") =>
        \A i \in PressureTriggers :
            lastCall.log[i].v = _BMP180_PRESSURE_CMD[_oversampling_setting]

\* the latest call is a completed temperature read of the worked example
ExampleTemperature ==
    /\ lastCall.op = "temperature"
    /\ lastCall.error = "none"
    /\ coeffs_mem = DatasheetCoeffs
    /\ lastCall.log[3].v = 27898

\* the latest call is a pressure read of the worked example in mode 0 (raw
\* pressure 23843 is 0x5D23) that met no bus failure
ExamplePressure ==
    /\ lastCall.op = "pressure"
    /\ lastCall.error # "OSError"
    /\ _mode = MODE_ULTRALOWPOWER
    /\ coeffs_mem = DatasheetCoeffs
    /\ lastCall.log[3].v = 27898

PressureOrder ==
    <<<<"w", _REGISTER_CONTROL>>, <<"s", 0>>, <<"r", _REGISTER_DATA>>,
      <<"w", _REGISTER_CONTROL>>, <<"s", 0>>, <<"r", _REGISTER_DATA>>,
      <<"r", _REGISTER_DATA + 1>>, <<"r", _REGISTER_DATA + 2>>>>

\* the log follows PressureOrder up to position n
FollowsOrder(n) ==
    /\ Len(lastCall.log) <= n
    /\ \A i \in 1..Len(lastCall.log) :
          /\ <<lastCall.log[i].k, lastCall.log[i].reg>> = PressureOrder[i]
          /\ i = 1 => lastCall.log[i].v = TEMPERATURE_CMD
          /\ i = 4 => lastCall.log[i].v \in PressureCmds

\* C7: every call of temperature or pressure triggers its own conversion: a
\* read of the result registers comes only after a trigger write and a wait
\* of the same call, and the transactions of a call are an initial part of
\* write 0x2E, wait, read raw temperature (temperature), followed by write
\* pressure command, wait, read three result words (pressure); a call that
\* returns a value performed all of them.
C7_EveryCallRetriggers ==
    /\ lastCall.op = "temperature" =>
          /\ FollowsOrder(3)
          /\ lastCall.error = "none" => Len(lastCall.log) = 3
    /\ PressureCall =>
          /\ FollowsOrder(8)
          /\ lastCall.error = "none" => Len(lastCall.log) = 8
    /\ lastCall.op \notin {"temperature", "pressure", "altitude", "altitude="}
          => \A i \in 1..Len(lastCall.log) :
                 ~(lastCall.log[i].k = "r"
                   /\ lastCall.log[i].reg \in
                          _REGISTER_DATA..(_REGISTER_DATA + 2))

C7_Witness ==
    lastCall.op = "pressure" /\ lastCall.error = "none" /\ Len(lastCall.log) = 8

\* C8: the calibration block is read once, by the constructor, and the
\* stored coefficients never change afterwards, whatever is called and
\* whether or not it fails.
C8_CoefficientsImmutable ==
    /\ [](obj = "live" => coeffReads = 1 /\ Len(coeffs_mem) = 11)
    /\ [][obj = "live" =>
             coeffs_mem' = coeffs_mem /\ coeffReads' = coeffReads]_vars

C8_Witness ==
    /\ obj = "live"
    /\ lastCall.op = "altitude="
    /\ lastCall.error = "ZeroDivisionError"
    /\ coeffReads = 1

\* C9: an alert mail is sent only at a poll whose reading is above HIGH_TEMP,
\* and the readings of time.monotonic() taken for two consecutive alert
\* mails (line 86) are more than MAIL_DELAY apart.
C9_AlertRateLimited ==
    /\ lastPoll.alert => lastPoll.tempF > HIGH_TEMP * FScale
    /\ \A i \in 1..Len(mails) :
          /\ mails[i].tempF > HIGH_TEMP * FScale
          /\ i > 1 => /\ mails[i].at - mails[i - 1].at > MAIL_DELAY
                      /\ mails[i].now - mails[i - 1].now > MAIL_DELAY

C9_Witness == Len(mails) >= 2

\* C10: no alert is raised at a poll taken within MAIL_DELAY of the reading
\* of line 30, and when every reading so far was above HIGH_TEMP and nothing
\* raised, the first alert mail was sent at the first poll taken more than
\* MAIL_DELAY after it.
C10_WindowStartsAtStartup ==
    /\ lastPoll.alert => lastPoll.now - startup > MAIL_DELAY
    /\ \A i \in 1..Len(mails) : mails[i].now - startup > MAIL_DELAY
    /\ (pc # "crashed" /\ ~polls.cold /\ polls.late # NoTime) =>
          /\ Len(mails) >= 1
          /\ mails[1].now = polls.late

C10_Witness ==
    /\ pc = "loop"
    /\ ~polls.cold
    /\ Len(mails) = 1
    /\ mails[1].now = polls.late
    /\ clock > mails[1].now

====
